---- MODULE Spec2Model ----
(***************************************************************************)
(* cyber-elephant: a multi-room White Elephant gift-exchange server.       *)
(*                                                                         *)
(*   game-core/src/lib.rs  the rules engine (apply_action)                 *)
(*   backend/src/lib.rs    the registry, the HTTP handlers, the websocket  *)
(*                         session and process_action                      *)
(*                                                                         *)
(* Strings that the code trims are sequences of one-character strings, so  *)
(* that trim() is computed.  Identifiers minted by Uuid::new_v4 are taken  *)
(* from a pool in minting order (fresh ids are interchangeable).           *)
(* Player.joined_at is wall-clock, is read by no code and is left out.     *)
(***************************************************************************)
EXTENDS Integers, Sequences, FiniteSets, TLC

\* ------------------------------------------------------------------ bounds

\* Spec: the number of distinct player names offered to join (names are unique
\* in a game, so a game has at most that many players)
MaxPlayers == 2

\* SpecPlay: the number of players of the started game
PlayPlayers == 3

\* SpecConc: the players of the started game, the websocket connections made
\* to it and the text frames each connection's client sends
ConcPlayers == 2

ConcSessions == 2

MaxFrames == 1

\* ------------------------------------------------------------------ values

None == "none"

GameIds == {"gA"}

PlayerIdPool == <<"p1", "p2", "p3", "p4", "p5">>

GiftIdPool == <<"g1", "g2", "g3", "g4", "g5">>

NameLetters == <<"a", "b", "c", "d", "e">>

\* a player id and a gift id no game holds
UnknownPlayer == "pX"

UnknownGift == "gX"

Range(s) == {s[i] : i \in DOMAIN s}

\* ------------------------------------------------------------------ game-core

GiftOpened(p, g) == [type |-> "gift_opened", player_id |-> p, gift_id |-> g]

\* a slip: thief and victim change places in the event
GiftStolen_reversed(f, t, g) ==
    [type |-> "gift_stolen", from |-> t, to |-> f, gift_id |-> g]

GiftStolen(f, t, g) == [type |-> "gift_stolen", from |-> f, to |-> t, gift_id |-> g]

TurnChanged(p) == [type |-> "turn_changed", player_id |-> p]

GameFinished == [type |-> "game_finished"]

ChooseGift(p, g) == [kind |-> "choose_gift", player_id |-> p, gift_id |-> g]

StealGift(p, g) == [kind |-> "steal_gift", player_id |-> p, gift_id |-> g]

\* Result<_, GameError> of the engine's procedures: the game and the events
\* as they are when the procedure returns
Ok(game, events) == [err |-> None, game |-> game, events |-> events]

Err(e, game) == [err |-> e, game |-> game, events |-> <<>>]

\* gifts.iter().position(|g| g.id == gift_id); 0 when absent
GiftPosition(gifts, gift_id) ==
    IF \E i \in DOMAIN gifts : gifts[i].id = gift_id
    THEN CHOOSE i \in DOMAIN gifts :
            /\ gifts[i].id = gift_id
            /\ \A j \in DOMAIN gifts : gifts[j].id = gift_id => i <= j
    ELSE 0

\* a slip in the index: the slot just played is activated again
advance_turn_same_slot(game, events) ==
    LET next_index == game.current_turn + 1 IN
    IF next_index < Len(game.turn_order)
    THEN Ok([game EXCEPT !.current_turn = next_index,
                         !.active_player = game.turn_order[next_index]],
            Append(events, TurnChanged(game.turn_order[next_index])))
    ELSE Ok([game EXCEPT !.active_player = None], events)

\* a slip: the next slot is counted from the slot of the player who just
\* acted, not from current_turn
advance_turn_from_actor(game, events) ==
    LET next_index == CHOOSE i \in DOMAIN game.turn_order :
                          game.turn_order[i] = game.active_player
    IN
    IF next_index < Len(game.turn_order)
    THEN Ok([game EXCEPT !.current_turn = next_index,
                         !.active_player = game.turn_order[next_index + 1]],
            Append(events, TurnChanged(game.turn_order[next_index + 1])))
    ELSE Ok([game EXCEPT !.active_player = None], events)

advance_turn(game, events) ==
    LET next_index == game.current_turn + 1 IN
    IF next_index < Len(game.turn_order)
    THEN Ok([game EXCEPT !.current_turn = next_index,
                         !.active_player = game.turn_order[next_index + 1]],
            Append(events, TurnChanged(game.turn_order[next_index + 1])))
    ELSE Ok([game EXCEPT !.active_player = None], events)

\* a slip: the opener is recorded but not made the holder
choose_gift_no_holder(game, player_id, gift_id, events) ==
    LET i == GiftPosition(game.gifts, gift_id) IN
    IF i = 0 THEN Err("GiftNotFound", game)
    ELSE IF game.gifts[i].state # "unopened" THEN Err("GiftAlreadyOpened", game)
    ELSE advance_turn(
            [game EXCEPT !.gifts[i].state = "opened",
                         !.gifts[i].opened_by = player_id],
            Append(events, GiftOpened(player_id, gift_id)))

choose_gift(game, player_id, gift_id, events) ==
    LET i == GiftPosition(game.gifts, gift_id) IN
    IF i = 0 THEN Err("GiftNotFound", game)
    ELSE IF game.gifts[i].state # "unopened" THEN Err("GiftAlreadyOpened", game)
    ELSE advance_turn(
            [game EXCEPT !.gifts[i].state = "opened",
                         !.gifts[i].opened_by = player_id,
                         !.gifts[i].held_by = player_id],
            Append(events, GiftOpened(player_id, gift_id)))

immediate_steal_back(game, actor, target) ==
    IF game.history = <<>> THEN FALSE
    ELSE LET evt == game.history[Len(game.history)] IN
         IF evt.type = "gift_stolen"
         THEN evt.from = actor /\ evt.to = target
         ELSE FALSE

\* a slip in the comparison: one steal too many
steal_limit_reached_off_by_one(stolen_count) == stolen_count > 3

\* if stolen_count >= 3
steal_limit_reached(stolen_count) == stolen_count >= 3

\* a slip: the thief stays active
forced_player_thief(current_holder, player_id) == player_id

\* game.active_player = Some(current_holder.clone()): the victim acts next
forced_player(current_holder, player_id) == current_holder

steal_gift(game, player_id, gift_id, events) ==
    LET gift_index == GiftPosition(game.gifts, gift_id) IN
    IF gift_index = 0 THEN Err("GiftNotFound", game)
    ELSE
    LET current_state == game.gifts[gift_index].state
        current_holder == game.gifts[gift_index].held_by
        stolen_count == game.gifts[gift_index].stolen_count
    IN
    IF current_holder = None THEN Err("InvalidAction", game)
    ELSE IF current_state # "opened" THEN Err("GiftUnopened", game)
    ELSE IF current_holder = player_id THEN Err("CannotStealOwnGift", game)
    ELSE IF steal_limit_reached(stolen_count) THEN Err("StealLimitReached", game)
    ELSE IF immediate_steal_back(game, player_id, current_holder)
         THEN Err("StealBackNotAllowed", game)
    ELSE Ok([game EXCEPT !.gifts[gift_index].stolen_count = stolen_count + 1,
                         !.gifts[gift_index].held_by = player_id,
                         !.active_player = forced_player(current_holder, player_id)],
            events \o <<GiftStolen(current_holder, player_id, gift_id),
                        TurnChanged(current_holder)>>)

all_gifts_opened(gifts) == \A i \in DOMAIN gifts : gifts[i].state = "opened"

all_players_holding_one(players, gifts) ==
    \A pid \in {players[i].id : i \in DOMAIN players} :
        Cardinality({i \in DOMAIN gifts : gifts[i].held_by = pid}) = 1

\* a slip: the end of the game is announced before what ended it
push_game_finished_first(events) == <<GameFinished>> \o events

\* events.push(GameEvent::GameFinished)
push_game_finished(events) == Append(events, GameFinished)

apply_action(game, action) ==
    IF game.phase # "in_progress" THEN Err("WrongPhase", game)
    ELSE IF game.active_player = None THEN Err("InvalidAction", game)
    ELSE IF game.active_player # action.player_id THEN Err("NotPlayersTurn", game)
    ELSE
    LET r == IF action.kind = "choose_gift"
             THEN choose_gift(game, action.player_id, action.gift_id, <<>>)
             ELSE steal_gift(game, action.player_id, action.gift_id, <<>>)
    IN
    IF r.err # None THEN r
    ELSE
    LET done == all_gifts_opened(r.game.gifts)
                  /\ all_players_holding_one(r.game.players, r.game.gifts)
        events == IF done THEN push_game_finished(r.events) ELSE r.events
        g1 == IF done THEN [r.game EXCEPT !.phase = "finished"] ELSE r.game
    IN Ok([g1 EXCEPT !.history = g1.history \o events], events)

\* ------------------------------------------------------------------ backend: data

\* str::trim on a sequence of characters; " " is the whitespace character
RECURSIVE TrimStart(_)
TrimStart(s) == IF s # <<>> /\ Head(s) = " " THEN TrimStart(Tail(s)) ELSE s

RECURSIVE TrimEnd(_)
TrimEnd(s) ==
    IF s # <<>> /\ s[Len(s)] = " " THEN TrimEnd(SubSeq(s, 1, Len(s) - 1)) ELSE s

\* a slip: only the leading spaces are removed
Trim_leading_only(s) == TrimStart(s)

Trim(s) == TrimEnd(TrimStart(s))

\* the ADMIN_PASSWORD the server expects (the default when the variable is unset)
admin_password == "changeme"

NewGameRecord(game_id, host_token) ==
    [id |-> game_id, host_token |-> host_token, players |-> <<>>, gifts |-> <<>>,
     phase |-> "submissions", turn_order |-> <<>>, current_turn |-> 0,
     active_player |-> None, history |-> <<>>]

PlayerRecord(id, name) == [id |-> id, name |-> name]

NewGiftRecord(id, payload) ==
    [id |-> id, submitted_by |-> payload.player_id,
     product_url |-> payload.product_url, hint |-> payload.hint,
     image_url |-> payload.image_url, title |-> payload.title,
     opened_by |-> None, held_by |-> None, stolen_count |-> 0,
     state |-> "unopened"]

to_core(record) ==
    [id |-> record.id, phase |-> record.phase, players |-> record.players,
     gifts |-> record.gifts, turn_order |-> record.turn_order,
     current_turn |-> record.current_turn,
     active_player |-> record.active_player, history |-> record.history]

\* a slip: the engine's history is not copied back to the record
update_record_keeps_history(record, core) ==
    [record EXCEPT !.phase = core.phase, !.turn_order = core.turn_order,
                   !.current_turn = core.current_turn,
                   !.active_player = core.active_player, !.gifts = core.gifts]

update_record_from_core(record, core) ==
    [record EXCEPT !.phase = core.phase, !.turn_order = core.turn_order,
                   !.current_turn = core.current_turn,
                   !.active_player = core.active_player,
                   !.history = core.history, !.gifts = core.gifts]

to_view(game) ==
    [id |-> game.id, phase |-> game.phase, players |-> game.players,
     gifts |-> game.gifts, turn_order |-> game.turn_order,
     active_player |-> game.active_player]

StateMsg(view) == [type |-> "state", view |-> view]

EventMsg(evt) == [type |-> "event", event |-> evt]

\* ------------------------------------------------------------------ backend: shuffle

\* a slip: the element drawn is copied, not exchanged
Swap_copy(s, i, j) == [s EXCEPT ![i] = s[j]]

\* <[T]>::swap
Swap(s, i, j) == [s EXCEPT ![i] = s[j], ![j] = s[i]]

\* SliceRandom::shuffle: for i in (1..len).rev() { swap(i, gen_index(rng, i + 1)) },
\* positions counted from 0; draw[i] is the index drawn at step i
RECURSIVE ShuffleFrom(_, _, _)
ShuffleFrom(s, i, draw) ==
    IF i < 1 THEN s ELSE ShuffleFrom(Swap(s, i + 1, draw[i] + 1), i - 1, draw)

\* a slip: the ids are put in id order before they are shuffled (as if taken
\* from a map keyed by id), so the result depends on the ids
Shuffle_sorted(s, draw) ==
    LET rank(x) == CHOOSE i \in DOMAIN PlayerIdPool : PlayerIdPool[i] = x
        sorted == [k \in DOMAIN s |->
                     CHOOSE x \in Range(s) :
                        Cardinality({y \in Range(s) : rank(y) < rank(x)}) = k - 1]
    IN ShuffleFrom(sorted, Len(s) - 1, draw)

Shuffle(s, draw) == ShuffleFrom(s, Len(s) - 1, draw)

\* the draws a generator can make while shuffling n elements
Draws(n) == {d \in [1..(n - 1) -> 0..(n - 1)] : \A i \in 1..(n - 1) : d[i] <= i}

\* the k-th word of the stream of the generator seeded with seed: a fixed
\* function of the seed stands for ChaCha8Rng::seed_from_u64
StreamWord(seed, k) == (seed * 31 + k * 17 + 7) % 97

\* the draws of the seeded generator: step i (from len-1 down) takes the next word
SeededDraws(seed, n) == [i \in 1..(n - 1) |-> StreamWord(seed, n - i) % (i + 1)]
\* ------------------------------------------------------------------ backend: channel

\* broadcast::channel(32): the capacity of a room's channel
Capacity == 32

\* a room's channel: every value handed to tx.send, in order.  A receiver is a
\* cursor into it; the ring buffer retains the last Capacity values.
NewChannel == [sent |-> <<>>]

Send(ch, msgs) == [ch EXCEPT !.sent = ch.sent \o msgs]

\* a slip: a bounded queue in place of the broadcast ring: the send waits
\* while a receiver has Capacity values unread
tx_send_bounded(ch, cursors) == \A rx \in cursors : Len(ch.sent) - rx < Capacity

\* tx.send is a plain call, not awaited: it returns at once whatever the
\* receivers have read (the ring overwrites its oldest value)
tx_send_ready(ch, cursors) == TRUE

\* a slip: a receiver that yields the newest value of the channel (a watch
\* channel) in place of its own next one
recv_newest(ch, rx) == ch.sent[Len(ch.sent)]

\* rx.recv() of a receiver that has taken rx values: the next value sent
recv(ch, rx) == ch.sent[rx + 1]

\* ------------------------------------------------------------------ backend: handlers
\* Each handler is a function of the registry it locks and of its request; it
\* returns its response and the registry it leaves.

Response(status, gs) == [status |-> status, games |-> gs]

\* a slip: any password that is not empty passes
password_any(provided) == provided # ""

\* provided == admin_password()
password_ok(provided) == provided = admin_password

create_game(gs, provided, game_id, host_token) ==
    IF ~ password_ok(provided) THEN Response(401, gs)
    ELSE Response(201,
            [g \in DOMAIN gs \cup {game_id} |->
                IF g = game_id THEN NewGameRecord(game_id, host_token) ELSE gs[g]])

join_game(gs, game_id, raw_name, player_id) ==
    LET name == Trim(raw_name) IN
    IF name = <<>> THEN Response(400, gs)
    ELSE IF game_id \notin DOMAIN gs THEN Response(404, gs)
    ELSE IF \E i \in DOMAIN gs[game_id].players : gs[game_id].players[i].name = name
         THEN Response(409, gs)
    ELSE Response(200,
            [gs EXCEPT ![game_id].players = Append(@, PlayerRecord(player_id, name))])

\* a slip: the gift a player already has is never found
GiftOf_never_found(gifts, player_id) == 0

\* gifts.iter_mut().find(|g| g.submitted_by == player_id); 0 when absent
GiftOf(gifts, player_id) ==
    IF \E i \in DOMAIN gifts : gifts[i].submitted_by = player_id
    THEN CHOOSE i \in DOMAIN gifts :
            /\ gifts[i].submitted_by = player_id
            /\ \A j \in DOMAIN gifts : gifts[j].submitted_by = player_id => i <= j
    ELSE 0

submit_gift(gs, game_id, payload, gift_id) ==
    IF game_id \notin DOMAIN gs THEN Response(404, gs)
    ELSE
    LET game == gs[game_id] IN
    IF game.phase # "submissions" THEN Response(409, gs)
    ELSE IF Trim(payload.product_url) = <<>> \/ Trim(payload.hint) = <<>>
         THEN Response(400, gs)
    ELSE IF ~ \E i \in DOMAIN game.players : game.players[i].id = payload.player_id
         THEN Response(404, gs)
    ELSE
    LET existing == GiftOf(game.gifts, payload.player_id) IN
    IF existing # 0
    THEN Response(200,
            [gs EXCEPT ![game_id].gifts[existing].product_url = payload.product_url,
                       ![game_id].gifts[existing].hint = payload.hint,
                       ![game_id].gifts[existing].image_url = payload.image_url,
                       ![game_id].gifts[existing].title = payload.title])
    ELSE Response(200,
            [gs EXCEPT ![game_id].gifts = Append(@, NewGiftRecord(gift_id, payload))])

\* a slip: one player with a gift is taken to be enough
some_have_gifts(game) ==
    \E i \in DOMAIN game.players :
        \E j \in DOMAIN game.gifts : game.gifts[j].submitted_by = game.players[i].id

\* players.iter().all(|p| gifts.iter().any(|g| g.submitted_by == p.id))
all_have_gifts(game) ==
    \A i \in DOMAIN game.players :
        \E j \in DOMAIN game.gifts : game.gifts[j].submitted_by = game.players[i].id

\* a slip: the phase is not looked at, a game can be started again
start_phase_any(game) == TRUE

\* matches!(game.phase, GamePhase::Submissions)
start_phase_ok(game) == game.phase = "submissions"

start_game(gs, game_id, token_val, draw) ==
    IF game_id \notin DOMAIN gs THEN Response(404, gs)
    ELSE
    LET game == gs[game_id] IN
    IF token_val = None THEN Response(401, gs)
    ELSE IF token_val # game.host_token THEN Response(401, gs)
    ELSE IF ~ start_phase_ok(game) THEN Response(409, gs)
    ELSE IF game.players = <<>> THEN Response(400, gs)
    ELSE IF ~ all_have_gifts(game) THEN Response(400, gs)
    ELSE
    LET turn_order == Shuffle([i \in DOMAIN game.players |-> game.players[i].id], draw)
    IN Response(200,
        [gs EXCEPT ![game_id] =
            [game EXCEPT !.phase = "in_progress",
                         !.turn_order = turn_order,
                         !.current_turn = 0,
                         !.active_player = turn_order[1],
                         !.history = <<>>,
                         !.gifts = [j \in DOMAIN game.gifts |->
                                      [game.gifts[j] EXCEPT !.state = "unopened",
                                                            !.opened_by = None,
                                                            !.held_by = None,
                                                            !.stolen_count = 0]]]])

\* Result<(), GameActionError>, with the registry and the channels it leaves
ActionResult(err, gs, chans, events) ==
    [err |-> err, games |-> gs, channels |-> chans, events |-> events]

\* a slip in the order: the events are sent first, the state after them
broadcast_msgs_events_first(view, events) ==
    [k \in DOMAIN events |-> EventMsg(events[k])] \o <<StateMsg(view)>>

\* "broadcast state + events": the values process_action hands to tx.send
broadcast_msgs(view, events) ==
    <<StateMsg(view)>> \o [k \in DOMAIN events |-> EventMsg(events[k])]

\* a slip in the order: the state is broadcast before the engine's result is looked at
process_action_broadcast_first(gs, chans, game_id, player_id, action) ==
    IF game_id \notin DOMAIN gs THEN ActionResult("GameNotFound", gs, chans, <<>>)
    ELSE
    LET game_record == gs[game_id] IN
    IF game_record.phase # "in_progress"
    THEN ActionResult("WrongPhase", gs, chans, <<>>)
    ELSE IF ~ \E i \in DOMAIN game_record.players :
                game_record.players[i].id = player_id
         THEN ActionResult("PlayerNotFound", gs, chans, <<>>)
    ELSE
    LET r == apply_action(to_core(game_record), action)
        updated == update_record_from_core(game_record, r.game)
        sent == IF game_id \in DOMAIN chans
                THEN [chans EXCEPT ![game_id] =
                        Send(@, broadcast_msgs(to_view(updated), r.events))]
                ELSE chans
    IN
    IF r.err # None THEN ActionResult(r.err, gs, sent, <<>>)
    ELSE ActionResult(None, [gs EXCEPT ![game_id] = updated], sent, r.events)

\* a slip: the messages go to the channel of every room
publish_to_all(chans, game_id, msgs) == [g \in DOMAIN chans |-> Send(chans[g], msgs)]

\* if let Some(tx) = state.channels.read().await.get(game_id) { tx.send ... }
publish_to(chans, game_id, msgs) ==
    IF game_id \in DOMAIN chans
    THEN [chans EXCEPT ![game_id] = Send(@, msgs)]
    ELSE chans

process_action(gs, chans, game_id, player_id, action) ==
    IF game_id \notin DOMAIN gs THEN ActionResult("GameNotFound", gs, chans, <<>>)
    ELSE
    LET game_record == gs[game_id] IN
    IF game_record.phase # "in_progress"
    THEN ActionResult("WrongPhase", gs, chans, <<>>)
    ELSE IF ~ \E i \in DOMAIN game_record.players :
                game_record.players[i].id = player_id
         THEN ActionResult("PlayerNotFound", gs, chans, <<>>)
    ELSE
    LET r == apply_action(to_core(game_record), action) IN
    IF r.err # None THEN ActionResult(r.err, gs, chans, <<>>)
    ELSE
    LET updated == update_record_from_core(game_record, r.game)
        msgs == broadcast_msgs(to_view(updated), r.events)
    IN ActionResult(None,
                    [gs EXCEPT ![game_id] = updated],
                    publish_to(chans, game_id, msgs),
                    r.events)

\* ------------------------------------------------------------------ snapshot file
\* serde_json values: what Serialize writes and Deserialize reads for the
\* records. A String and an enum variant are JSON strings, an Option is null
\* or the value, a Vec is an array, a struct and the HashMap are objects.

JNull == [j |-> "null"]

JStr(s) == [j |-> "string", v |-> s]

JNum(n) == [j |-> "number", v |-> n]

JArr(items) == [j |-> "array", v |-> items]

JObj(members) == [j |-> "object", v |-> members]

ser_option(x) == IF x = None THEN JNull ELSE JStr(x)

de_option(v) == IF v.j = "null" THEN None ELSE v.v

ser_player(p) == JObj([id |-> JStr(p.id), name |-> JStr(p.name)])

de_player(o) == [id |-> o.v.id.v, name |-> o.v.name.v]

ser_gift(g) ==
    JObj([id |-> JStr(g.id), submitted_by |-> JStr(g.submitted_by),
          product_url |-> JStr(g.product_url), hint |-> JStr(g.hint),
          image_url |-> ser_option(g.image_url), title |-> ser_option(g.title),
          opened_by |-> ser_option(g.opened_by), held_by |-> ser_option(g.held_by),
          stolen_count |-> JNum(g.stolen_count), state |-> JStr(g.state)])

de_gift(o) ==
    [id |-> o.v.id.v, submitted_by |-> o.v.submitted_by.v,
     product_url |-> o.v.product_url.v, hint |-> o.v.hint.v,
     image_url |-> de_option(o.v.image_url), title |-> de_option(o.v.title),
     opened_by |-> de_option(o.v.opened_by), held_by |-> de_option(o.v.held_by),
     stolen_count |-> o.v.stolen_count.v, state |-> o.v.state.v]

\* GameEvent is internally tagged: the variant's name under "type" beside its
\* fields
ser_event(e) == JObj([k \in DOMAIN e |-> JStr(e[k])])

de_event(o) ==
    LET t == o.v.type.v IN
    IF t = "gift_opened" THEN GiftOpened(o.v.player_id.v, o.v.gift_id.v)
    ELSE IF t = "gift_stolen" THEN GiftStolen(o.v.from.v, o.v.to.v, o.v.gift_id.v)
    ELSE IF t = "turn_changed" THEN TurnChanged(o.v.player_id.v)
    ELSE GameFinished

ser_game(g) ==
    JObj([id |-> JStr(g.id), host_token |-> JStr(g.host_token),
          players |-> JArr([i \in DOMAIN g.players |-> ser_player(g.players[i])]),
          gifts |-> JArr([i \in DOMAIN g.gifts |-> ser_gift(g.gifts[i])]),
          phase |-> JStr(g.phase),
          turn_order |-> JArr([i \in DOMAIN g.turn_order |-> JStr(g.turn_order[i])]),
          current_turn |-> JNum(g.current_turn),
          active_player |-> ser_option(g.active_player),
          history |-> JArr([i \in DOMAIN g.history |-> ser_event(g.history[i])])])

de_game(o) ==
    [id |-> o.v.id.v, host_token |-> o.v.host_token.v,
     players |-> [i \in DOMAIN o.v.players.v |-> de_player(o.v.players.v[i])],
     gifts |-> [i \in DOMAIN o.v.gifts.v |-> de_gift(o.v.gifts.v[i])],
     phase |-> o.v.phase.v,
     turn_order |-> [i \in DOMAIN o.v.turn_order.v |-> o.v.turn_order.v[i].v],
     current_turn |-> o.v.current_turn.v,
     active_player |-> de_option(o.v.active_player),
     history |-> [i \in DOMAIN o.v.history.v |-> de_event(o.v.history.v[i])]]

\* serde_json::to_vec_pretty(&snapshot): the document
to_vec_pretty(gs) == JObj([g \in DOMAIN gs |-> ser_game(gs[g])])

\* serde_json::from_slice::<HashMap<String, GameRecord>>
from_slice(doc) == [g \in DOMAIN doc.v |-> de_game(doc.v[g])]

RECURSIVE SumOf(_, _)
SumOf(f, keys) ==
    IF keys = {} THEN 0
    ELSE LET k == CHOOSE x \in keys : TRUE IN f[k] + SumOf(f, keys \ {k})

\* the number of characters of the pretty document: a member or an item on a
\* line of its own, two spaces of indentation a level, ": " after a key, ","
\* between members; the empty array is "[]" and the empty object "{}"
RECURSIVE TextLen(_, _)
TextLen(v, depth) ==
    IF v.j = "null" THEN 4
    ELSE IF v.j = "string" THEN Len(v.v) + 2
    ELSE IF v.j = "number" THEN (IF v.v < 10 THEN 1 ELSE IF v.v < 100 THEN 2 ELSE 3)
    ELSE IF DOMAIN v.v = {} THEN 2
    ELSE LET keys == DOMAIN v.v
             key_len(k) == IF v.j = "object" THEN Len(k) + 4 ELSE 0
             line == [k \in keys |->
                        1 + 2 * (depth + 1) + key_len(k) + TextLen(v.v[k], depth + 1)]
         IN 1 + SumOf(line, keys) + (Cardinality(keys) - 1) + 1 + 2 * depth + 1

\* The file at persist_path: whether it exists, the document written last
\* from offset 0, its length, and the bytes of an earlier, longer content that
\* remain behind it.
NoFile == [exists |-> FALSE, doc |-> JNull, len |-> 0, rest |-> 0]

\* std::fs::write, File::create: the file is opened and truncated
fs_create(file) == [exists |-> TRUE, doc |-> JNull, len |-> 0, rest |-> 0]

\* std::fs::write, write_all: the bytes go to offset 0 of what the file holds
\* then; a longer content keeps its tail
fs_write_all(file, doc) ==
    LET n == TextLen(doc, 0)
        held == file.len + file.rest
    IN [exists |-> TRUE, doc |-> doc, len |-> n,
        rest |-> IF held > n THEN held - n ELSE 0]

\* AppState::persist: the snapshot file after the write; without a persist_path
\* nothing is written
persist(path, gs, file) ==
    IF path = None THEN file ELSE fs_write_all(fs_create(file), to_vec_pretty(gs))

\* AppState::with_persistence: the registry and the channels of the new
\* process. A file that cannot be read, is empty or has characters after the
\* document leaves the default state.
with_persistence(file) ==
    IF ~ file.exists \/ file.len = 0 \/ file.rest > 0
    THEN [games |-> [g \in {} |-> None], channels |-> [g \in {} |-> None]]
    ELSE LET saved == from_slice(file.doc) IN
         [games |-> saved, channels |-> [g \in DOMAIN saved |-> NewChannel]]

\* ------------------------------------------------------------------ inputs

Passwords == {"", "changeme", "letmein"}

\* the x-host-token header: absent, the token minted for the game, another value
HostTokenOf(game_id) == IF game_id = "gA" THEN "token-gA" ELSE "token-gB"

TokenHeaders == {None, "token-other"} \cup {HostTokenOf(g) : g \in GameIds}

RawNames ==
    {<<>>, <<" ">>}
        \cup {<<NameLetters[i]>> : i \in 1..MaxPlayers}
        \cup {<<" ", NameLetters[i], " ">> : i \in 1..MaxPlayers}

Urls == {<<>>, <<" ">>, <<"u">>, <<"v">>}

Hints == {<<>>, <<"h">>}

PlayerIdsOf(game) == {game.players[i].id : i \in DOMAIN game.players}

GiftIdsOf(game) == {game.gifts[i].id : i \in DOMAIN game.gifts}

\* the bodies of POST /game/:id/gift: a player of the game or a stranger
GiftPayloads(game) ==
    [player_id : PlayerIdsOf(game) \cup {UnknownPlayer}, product_url : Urls,
     hint : Hints, image_url : {None}, title : {None}]

\* the largest seed offered to start
MaxSeed == 1

\* start?seed=: Option<u64>, <<>> when absent (the generator is seeded from entropy)
Seeds == {<<>>} \cup {<<k>> : k \in 0..MaxSeed}

\* the action frames a client can send: any player id, any gift id
PlayerActions(game) ==
    LET ps == PlayerIdsOf(game) \cup {UnknownPlayer}
        gs == GiftIdsOf(game) \cup {UnknownGift}
    IN {ChooseGift(p, g) : p \in ps, g \in gs} \cup {StealGift(p, g) : p \in ps, g \in gs}

\* ------------------------------------------------------------------ state

\* AppState.persist_path: the server runs with PERSIST_PATH set (without it
\* persist writes nothing)
persist_path == "games.json"

VARIABLES
    games,          \* AppState.games: game id -> GameRecord
    channels,       \* AppState.channels: game id -> channel
    file,           \* the snapshot file at persist_path
    last,           \* the response of the handler that ran last
    sess,           \* handle_socket: the connections, their tasks and their locals
    games_lock,     \* the task holding the write guard of AppState.games, or None
    lock_order,     \* history: the process_action calls in the order they took the guard
    applied,        \* history: the process_action calls in the order they ran the engine
    origin          \* history: for each value sent on a channel, the call that sent it

concVars == <<sess, games_lock, lock_order, applied, origin>>

vars == <<games, channels, file, last, sess, games_lock, lock_order, applied, origin>>

SessionPool == <<"s1", "s2", "s3", "s4">>

Sessions == {SessionPool[i] : i \in 1..ConcSessions}

\* a connection not yet made
NewSession ==
    [pc |-> "idle", game_id |-> None, player_id |-> None, snapshot |-> None,
     snap_len |-> 0, rx |-> 0, sub_pos |-> 0, out |-> <<>>,
     rpc |-> "wait", frames |-> 0, action |-> None, pending |-> <<>>,
     err |-> None, clone |-> None]

InitConc ==
    /\ sess = [s \in Sessions |-> NewSession]
    /\ games_lock = None
    /\ lock_order = <<>>
    /\ applied = <<>>
    /\ origin = <<>>

EmptyMap == [g \in {} |-> None]

Init ==
    /\ games = EmptyMap
    /\ channels = EmptyMap
    /\ file = NoFile
    /\ last = [op |-> "new"]
    /\ InitConc

\* Uuid::new_v4 for a player of the game and for a gift of the game: the next
\* unused id of the pool
FreshPlayerId(game) == PlayerIdPool[Len(game.players) + 1]

FreshGiftId(game) == GiftIdPool[Len(game.gifts) + 1]

\* ------------------------------------------------------------------ handlers as steps
\* A handler mutates the registry while it holds the write lock of games and
\* then persists; in Spec each handler is one step.

CreateGame ==
    \E provided \in Passwords, game_id \in GameIds :
        /\ game_id \notin DOMAIN games
        /\ LET r == create_game(games, provided, game_id, HostTokenOf(game_id)) IN
           /\ games' = r.games
           /\ channels' = IF r.status = 201
                          THEN [g \in DOMAIN channels \cup {game_id} |->
                                  IF g = game_id THEN NewChannel ELSE channels[g]]
                          ELSE channels
           /\ file' = IF r.status = 201 THEN persist(persist_path, r.games, file)
                      ELSE file
           /\ last' = [op |-> "create", status |-> r.status, game_id |-> game_id,
                        provided |-> provided]
        /\ UNCHANGED concVars

JoinGame ==
    \E game_id \in GameIds, raw_name \in RawNames :
        LET pid == IF game_id \in DOMAIN games THEN FreshPlayerId(games[game_id])
                   ELSE PlayerIdPool[1]
            r == join_game(games, game_id, raw_name, pid)
        IN
        /\ games' = r.games
        /\ file' = IF r.status = 200 THEN persist(persist_path, r.games, file) ELSE file
        /\ last' = [op |-> "join", status |-> r.status, game_id |-> game_id,
                     name |-> raw_name]
        /\ UNCHANGED <<channels, concVars>>

SubmitGift ==
    \E game_id \in DOMAIN games :
      \E payload \in GiftPayloads(games[game_id]) :
        LET gid == IF game_id \in DOMAIN games THEN FreshGiftId(games[game_id])
                   ELSE GiftIdPool[1]
            r == submit_gift(games, game_id, payload, gid)
        IN
        /\ games' = r.games
        /\ file' = IF r.status = 200 THEN persist(persist_path, r.games, file) ELSE file
        /\ last' = [op |-> "gift", status |-> r.status, game_id |-> game_id,
                     payload |-> payload]
        /\ UNCHANGED <<channels, concVars>>

\* POST /game/:id/start?seed= with an x-host-token header
StartOf(game_id, token_val, seed) ==
    LET n == IF game_id \in DOMAIN games THEN Len(games[game_id].players) ELSE 0 IN
    \E draw \in IF seed = <<>> THEN Draws(n) ELSE {SeededDraws(seed[1], n)} :
        LET r == start_game(games, game_id, token_val, draw) IN
        /\ games' = r.games
        /\ file' = IF r.status = 200 THEN persist(persist_path, r.games, file)
                   ELSE file
        /\ last' = [op |-> "start", status |-> r.status, game_id |-> game_id,
                     token |-> token_val, seed |-> seed]
        /\ UNCHANGED <<channels, concVars>>

StartGame ==
    \E game_id \in GameIds, token_val \in TokenHeaders, seed \in Seeds :
        StartOf(game_id, token_val, seed)

\* the connection of player_id receives an action frame: process_action, then
\* persist on success
SubmitFrom(game_id, player_id, action) ==
    LET r == process_action(games, channels, game_id, player_id, action) IN
    /\ games' = r.games
    /\ channels' = r.channels
    /\ file' = IF r.err = None THEN persist(persist_path, r.games, file) ELSE file
    /\ last' = IF r.err = None
               THEN [op |-> "action", game_id |-> game_id, status |-> None,
                     action |-> action, events |-> r.events]
               ELSE [op |-> "action", game_id |-> game_id, status |-> r.err]
    /\ UNCHANGED concVars

\* any player's connection sends any action frame
SubmitAction ==
    \E game_id \in DOMAIN games :
      \E action \in PlayerActions(games[game_id]) :
        \E i \in DOMAIN games[game_id].players :
            SubmitFrom(game_id, games[game_id].players[i].id, action)

Next ==
    \/ CreateGame
    \/ JoinGame
    \/ SubmitGift
    \/ StartGame
    \/ SubmitAction

Spec == Init /\ [][Next]_vars
\* ------------------------------------------------------------------ SpecPlay
\* The rules engine on a started game of PlayPlayers players: the registry
\* after create, PlayPlayers joins, one gift each and start, then actions only.

RECURSIVE Joined(_, _)
Joined(gs, n) ==
    IF n = 0 THEN gs
    ELSE LET g0 == Joined(gs, n - 1)
         IN join_game(g0, "gA", <<NameLetters[n]>>, FreshPlayerId(g0["gA"])).games

RECURSIVE Gifted(_, _)
Gifted(gs, n) ==
    IF n = 0 THEN gs
    ELSE LET g0 == Gifted(gs, n - 1)
             payload == [player_id |-> PlayerIdPool[n], product_url |-> <<"u">>,
                         hint |-> <<"h">>, image_url |-> None, title |-> None]
         IN submit_gift(g0, "gA", payload, FreshGiftId(g0["gA"])).games

Started(n, draw) ==
    LET created == create_game(EmptyMap, admin_password, "gA", HostTokenOf("gA")).games
    IN start_game(Gifted(Joined(created, n), n), "gA", HostTokenOf("gA"), draw).games

InitPlay ==
    /\ \E draw \in Draws(PlayPlayers) : games = Started(PlayPlayers, draw)
    /\ channels = [g \in {"gA"} |-> NewChannel]
    /\ file = persist(persist_path, games, NoFile)
    /\ last = [op |-> "start", status |-> 200, game_id |-> "gA",
              token |-> HostTokenOf("gA"), seed |-> <<>>]
    /\ InitConc

\* any action frame, sent on the first player's connection (process_action
\* reads of the connection's player only that it is a player of the game)
PlayAction ==
    \E game_id \in DOMAIN games :
      \E action \in PlayerActions(games[game_id]) :
            SubmitFrom(game_id, games[game_id].players[1].id, action)

NextPlay == PlayAction

SpecPlay == InitPlay /\ [][NextPlay]_vars
\* ------------------------------------------------------------------ SpecSeed
\* Two games of the registry, each with up to SeedPlayers players who have all
\* submitted a gift, are started (with or without a seed).  The players of the
\* two games have different ids.

SeedPlayers == 3

SeedGameIds == {"gA", "gB"}

\* the id minted for the k-th player to join game_id
SeedPlayerId(game_id, k) ==
    IF game_id = "gA" THEN PlayerIdPool[k] ELSE PlayerIdPool[Len(PlayerIdPool) + 1 - k]

RECURSIVE SeedJoined(_, _, _)
SeedJoined(gs, game_id, n) ==
    IF n = 0 THEN gs
    ELSE join_game(SeedJoined(gs, game_id, n - 1), game_id, <<NameLetters[n]>>,
                   SeedPlayerId(game_id, n)).games

RECURSIVE SeedGifted(_, _, _)
SeedGifted(gs, game_id, n) ==
    IF n = 0 THEN gs
    ELSE LET g0 == SeedGifted(gs, game_id, n - 1)
             payload == [player_id |-> SeedPlayerId(game_id, n), product_url |-> <<"u">>,
                         hint |-> <<"h">>, image_url |-> None, title |-> None]
         IN submit_gift(g0, game_id, payload, FreshGiftId(g0[game_id])).games

\* the registry after game_id was created, joined by n players and given n gifts
SeedReady(gs, game_id, n) ==
    LET created == create_game(gs, admin_password, game_id, HostTokenOf(game_id)).games
    IN SeedGifted(SeedJoined(created, game_id, n), game_id, n)

InitSeed ==
    /\ \E na, nb \in 1..SeedPlayers :
          games = SeedReady(SeedReady(EmptyMap, "gA", na), "gB", nb)
    /\ channels = [g \in SeedGameIds |-> NewChannel]
    /\ file = persist(persist_path, games, NoFile)
    /\ last = [op |-> "gift", status |-> 200]
    /\ InitConc

StartSeed ==
    \E game_id \in SeedGameIds, seed \in Seeds :
        \E token_val \in {None, HostTokenOf(game_id)} :
            StartOf(game_id, token_val, seed)

NextSeed == StartSeed

SpecSeed == InitSeed /\ [][NextSeed]_vars
\* ------------------------------------------------------------------ claims

ActionOk == last.op = "action" /\ last.status = None

ActionFailed == last.op = "action" /\ last.status # None

HeldBy(game, p) == {i \in DOMAIN game.gifts : game.gifts[i].held_by = p}

\* C1: right after a successful StealGift in which A took a gift from B, a
\* StealGift by B of any gift A holds (and that is below the steal limit) is
\* rejected with StealBackNotAllowed.
C1_ImmediateStealBackRejected ==
    (ActionOk /\ last.action.kind = "steal_gift") =>
        LET game == games[last.game_id]
            a == last.events[1].to
            b == last.events[1].from
        IN \A i \in HeldBy(game, a) :
              game.gifts[i].stolen_count < 3 =>
                process_action(games, channels, last.game_id, b,
                               StealGift(b, game.gifts[i].id)).err
                    = "StealBackNotAllowed"

\* C2: a game in progress has an active player, and it is in turn_order.
C2_ActiveInTurnOrder ==
    \A g \in DOMAIN games :
        games[g].phase = "in_progress" =>
            /\ games[g].active_player # None
            /\ games[g].active_player \in Range(games[g].turn_order)

Complete(game) ==
    /\ \A i \in DOMAIN game.gifts : game.gifts[i].state = "opened"
    /\ \A p \in PlayerIdsOf(game) : Cardinality(HeldBy(game, p)) = 1

\* C3: a started game is finished iff all its gifts are opened and every player
\* holds exactly one gift.
C3_FinishedIffComplete ==
    \A g \in DOMAIN games :
        games[g].phase \in {"in_progress", "finished"} =>
            (games[g].phase = "finished" <=> Complete(games[g]))

\* C4: while a game is in progress no player holds more than one gift.
C4_AtMostOneGiftEach ==
    \A g \in DOMAIN games :
        games[g].phase = "in_progress" =>
            \A p \in PlayerIdsOf(games[g]) \cup {UnknownPlayer} :
                Cardinality(HeldBy(games[g], p)) <= 1

\* C4 witness: a game in progress after a steal, two players holding a gift
C4_Witness ==
    \E g \in DOMAIN games :
        /\ games[g].phase = "in_progress"
        /\ ActionOk /\ last.action.kind = "steal_gift"
        /\ Cardinality({p \in PlayerIdsOf(games[g]) : HeldBy(games[g], p) # {}}) >= 2

\* C5: a gift is unopened iff opened_by and held_by are both unset, and opened
\* iff both are set.
C5_GiftStateMatchesHolders ==
    \A g \in DOMAIN games :
        \A i \in DOMAIN games[g].gifts :
            LET gift == games[g].gifts[i] IN
            /\ gift.state \in {"unopened", "opened"}
            /\ gift.state = "unopened" <=> (gift.opened_by = None /\ gift.held_by = None)
            /\ gift.state = "opened" <=> (gift.opened_by # None /\ gift.held_by # None)

\* C5 witness: an opened gift that was stolen from its opener, beside an unopened one
C5_Witness ==
    \E g \in DOMAIN games :
        /\ \E i \in DOMAIN games[g].gifts :
              /\ games[g].gifts[i].state = "opened"
              /\ games[g].gifts[i].held_by # games[g].gifts[i].opened_by
        /\ \E i \in DOMAIN games[g].gifts : games[g].gifts[i].state = "unopened"
\* C6: stolen_count never exceeds 3, grows only by one and only in a
\* successful StealGift of that gift, and a StealGift by the active player of
\* a gift another player holds whose stolen_count is 3 fails with
\* StealLimitReached.
C6_CountBounded ==
    \A g \in DOMAIN games :
        \A i \in DOMAIN games[g].gifts :
            LET gift == games[g].gifts[i] IN
            /\ gift.stolen_count <= 3
            /\ ( /\ games[g].phase = "in_progress"
                 /\ games[g].active_player # None
                 /\ gift.stolen_count = 3
                 /\ gift.held_by \notin {None, games[g].active_player} )
               => \A j \in DOMAIN games[g].players :
                    process_action(games, channels, g, games[g].players[j].id,
                                   StealGift(games[g].active_player, gift.id)).err
                        = "StealLimitReached"

C6_CountStep ==
    \A g \in DOMAIN games :
        \A i \in DOMAIN games[g].gifts :
            games'[g].gifts[i].stolen_count > games[g].gifts[i].stolen_count =>
                /\ games'[g].gifts[i].stolen_count = games[g].gifts[i].stolen_count + 1
                /\ last'.op = "action" /\ last'.status = None /\ last'.game_id = g
                /\ last'.action.kind = "steal_gift"
                /\ last'.action.gift_id = games[g].gifts[i].id

C6_StealLimit == [] C6_CountBounded /\ [][C6_CountStep]_vars

\* C6 witness: a steal was refused at the limit
C6_Witness ==
    /\ ActionFailed /\ last.status = "StealLimitReached"
    /\ \E i \in DOMAIN games[last.game_id].gifts :
          games[last.game_id].gifts[i].stolen_count = 3

\* C7: a step in which a submitted action fails leaves the registry and the
\* channels as they were.
C7_FailedActionChangesNothing ==
    [][(last'.op = "action" /\ last'.status # None)
            => (games' = games /\ channels' = channels /\ file' = file)]_vars

\* C7 witness: the engine refused an action of a game that had broadcast before
C7_Witness ==
    /\ ActionFailed /\ last.status = "GiftAlreadyOpened"
    /\ channels[last.game_id].sent # <<>>

\* C8: a finished game stays finished, and no action on it succeeds.
C8_FinishedRefusesAll ==
    \A g \in DOMAIN games :
        games[g].phase = "finished" =>
            \A a \in PlayerActions(games[g]) :
                \A j \in DOMAIN games[g].players :
                    process_action(games, channels, g, games[g].players[j].id, a).err
                        # None

C8_FinishedStep ==
    \A g \in DOMAIN games :
        games[g].phase = "finished" =>
            /\ games'[g].phase = "finished"
            /\ (last'.op = "action" /\ last'.game_id = g) => last'.status # None

C8_CompletionStable == [] C8_FinishedRefusesAll /\ [][C8_FinishedStep]_vars

\* C8 witness: an action was refused on a finished game
C8_Witness ==
    /\ ActionFailed
    /\ games[last.game_id].phase = "finished"
\* ------------------------------------------------------------------ SpecConc
\* The websocket connections of one started game, step by step.  Tasks run on
\* a multi-threaded runtime: a step is what one task does between two points
\* at which another task can be observed to have run.  games_lock is the write
\* guard of AppState.games; a read guard is taken and dropped within one step.

UnknownGame == "gZ"

\* a text frame that does not decode as ClientMessage
Garbage == [kind |-> "garbage"]

ErrorFrame(text) == [type |-> "error", text |-> text]

\* the process_action call that connection s makes for its k-th frame
Call(s) == <<s, sess[s].frames>>

\* handle_socket, "Fetch game and channel": under a read guard of games
Connect(s) ==
    /\ sess[s].pc = "idle"
    /\ games_lock = None
    /\ \E game_id \in DOMAIN games \cup {UnknownGame} :
         \E player_id \in (IF game_id \in DOMAIN games
                           THEN PlayerIdsOf(games[game_id]) ELSE {})
                              \cup {UnknownPlayer} :
            sess' = [sess EXCEPT ![s] =
                IF game_id \notin DOMAIN games
                THEN [@ EXCEPT !.pc = "closed", !.game_id = game_id,
                               !.player_id = player_id,
                               !.out = <<ErrorFrame("unknown game")>>]
                ELSE IF player_id \notin PlayerIdsOf(games[game_id])
                THEN [@ EXCEPT !.pc = "closed", !.game_id = game_id,
                               !.player_id = player_id,
                               !.out = <<ErrorFrame("unknown player")>>]
                ELSE [@ EXCEPT !.pc = "subscribe", !.game_id = game_id,
                               !.player_id = player_id,
                               !.snapshot = to_view(games[game_id]),
                               !.snap_len = Len(channels[game_id].sent)]]
    /\ UNCHANGED <<games, channels, file, last, games_lock, lock_order, applied, origin>>

\* channels.write().await ... .subscribe(): the receiver starts after the
\* values already sent
Subscribe(s) ==
    /\ sess[s].pc = "subscribe"
    /\ sess' = [sess EXCEPT ![s].pc = "send_snapshot",
                            ![s].rx = Len(channels[sess[s].game_id].sent),
                            ![s].sub_pos = Len(channels[sess[s].game_id].sent)]
    /\ UNCHANGED <<games, channels, file, last, games_lock, lock_order, applied, origin>>

\* "Send snapshot", then both tasks are spawned
SendSnapshot(s) ==
    /\ sess[s].pc = "send_snapshot"
    /\ sess' = [sess EXCEPT ![s].pc = "open",
                            ![s].out = Append(@, StateMsg(sess[s].snapshot))]
    /\ UNCHANGED <<games, channels, file, last, games_lock, lock_order, applied, origin>>

\* recv_task is suspended outside process_action's effects: at
\* receiver.next() or at games.write(), or it has finished; an aborted task
\* that is suspended there is dropped at once
Suspended(rpc) == rpc \in {"wait", "lock", "ended"}

\* send_task: rx.recv() yields the next value, or Lagged once the receiver is
\* more than Capacity values behind; on Lagged the loop ends, the receiver is
\* dropped, handle_socket calls recv_task.abort() and returns.  A recv_task
\* that is inside process_action runs on to its next await
SendTask(s) ==
    /\ sess[s].pc = "open"
    /\ sess[s].rx < Len(channels[sess[s].game_id].sent)
    /\ IF Len(channels[sess[s].game_id].sent) - sess[s].rx > Capacity
       THEN sess' = [sess EXCEPT
                ![s].pc = IF Suspended(sess[s].rpc) THEN "closed" ELSE "aborted"]
       ELSE sess' = [sess EXCEPT
                ![s].rx = @ + 1,
                ![s].out = Append(@, recv(channels[sess[s].game_id], sess[s].rx))]
    /\ UNCHANGED <<games, channels, file, last, games_lock, lock_order, applied, origin>>

\* recv_task: receiver.next() yields a text frame; one that does not decode
\* is skipped
RecvFrame(s) ==
    /\ sess[s].pc = "open"
    /\ sess[s].rpc = "wait"
    /\ sess[s].frames < MaxFrames
    /\ \E frame \in PlayerActions(games[sess[s].game_id]) \cup {Garbage} :
          sess' = [sess EXCEPT ![s].frames = @ + 1,
                               ![s].action = frame,
                               ![s].rpc = IF frame = Garbage THEN "wait" ELSE "lock"]
    /\ UNCHANGED <<games, channels, file, last, games_lock, lock_order, applied, origin>>

\* recv_task of connection s exists: the connection is open, or it was
\* aborted inside process_action and has not reached an await since
Running(s) == sess[s].pc \in {"open", "aborted"}

\* the receivers of the room of connection s: their cursors
Cursors(s) ==
    {sess[t].rx : t \in {u \in Sessions : /\ sess[u].pc \in {"send_snapshot", "open"}
                                          /\ sess[u].game_id = sess[s].game_id}}

\* the guard stays with the call until drop(games)
guard_dropped_early(s) == None

guard_after_apply(s) == s

\* process_action: state.games.write().await
PaLock(s) ==
    /\ sess[s].pc = "open"
    /\ sess[s].rpc = "lock"
    /\ games_lock = None
    /\ games_lock' = s
    /\ lock_order' = Append(lock_order, Call(s))
    /\ sess' = [sess EXCEPT ![s].rpc = "apply"]
    /\ UNCHANGED <<games, channels, file, last, applied, origin>>

\* process_action up to update_record_from_core; on Err the guard is dropped
\* by the return
PaApply(s) ==
    /\ Running(s)
    /\ sess[s].rpc = "apply"
    /\ LET g == sess[s].game_id
           r == process_action(games, channels, g, sess[s].player_id, sess[s].action)
       IN
       /\ games' = r.games
       /\ applied' = Append(applied, Call(s))
       /\ IF r.err # None
          THEN /\ sess' = [sess EXCEPT ![s].rpc = "reply", ![s].err = r.err]
               /\ games_lock' = IF games_lock = s THEN None ELSE games_lock
          ELSE /\ sess' = [sess EXCEPT
                    ![s].rpc = "publish",
                    ![s].pending = SubSeq(r.channels[g].sent,
                                          Len(channels[g].sent) + 1,
                                          Len(r.channels[g].sent))]
               /\ games_lock' = IF games_lock = s THEN guard_after_apply(s)
                                ELSE games_lock
    /\ UNCHANGED <<channels, file, last, lock_order, origin>>

\* process_action: one tx.send
PaPublish(s) ==
    /\ Running(s)
    /\ sess[s].rpc = "publish"
    /\ sess[s].pending # <<>>
    /\ tx_send_ready(channels[sess[s].game_id], Cursors(s))
    /\ channels' = [channels EXCEPT ![sess[s].game_id] = Send(@, <<Head(sess[s].pending)>>)]
    /\ origin' = Append(origin, Call(s))
    /\ sess' = [sess EXCEPT ![s].pending = Tail(@)]
    /\ UNCHANGED <<games, file, last, games_lock, lock_order, applied>>

\* process_action: drop(games)
PaUnlock(s) ==
    /\ Running(s)
    /\ sess[s].rpc = "publish"
    /\ sess[s].pending = <<>>
    /\ games_lock' = IF games_lock = s THEN None ELSE games_lock
    /\ sess' = [sess EXCEPT ![s].rpc = "persist"]
    /\ UNCHANGED <<games, channels, file, last, lock_order, applied, origin>>

\* persist: games.read().await, games.clone()
PaPersistRead(s) ==
    /\ Running(s)
    /\ sess[s].rpc = "persist"
    /\ games_lock = None
    /\ sess' = [sess EXCEPT ![s].rpc = "create", ![s].clone = games]
    /\ UNCHANGED <<games, channels, file, last, games_lock, lock_order, applied, origin>>

\* persist: tokio::fs::write runs std::fs::write on a blocking thread, which
\* first opens the file with truncation
PaPersistCreate(s) ==
    /\ Running(s)
    /\ sess[s].rpc = "create"
    /\ file' = fs_create(file)
    /\ sess' = [sess EXCEPT ![s].rpc = "write"]
    /\ UNCHANGED <<games, channels, last, games_lock, lock_order, applied, origin>>

\* persist: std::fs::write writes the document; process_action returns Ok
PaPersistWrite(s) ==
    /\ Running(s)
    /\ sess[s].rpc = "write"
    /\ file' = fs_write_all(file, to_vec_pretty(sess[s].clone))
    /\ sess' = [sess EXCEPT ![s].rpc = "wait", ![s].clone = None,
                            ![s].pc = IF @ = "aborted" THEN "closed" ELSE @]
    /\ UNCHANGED <<games, channels, last, games_lock, lock_order, applied, origin>>

\* recv_task: the error of process_action goes to this connection's socket
PaReply(s) ==
    /\ Running(s)
    /\ sess[s].rpc = "reply"
    /\ sess' = [sess EXCEPT ![s].rpc = "wait", ![s].err = None,
                            ![s].out = Append(@, ErrorFrame(sess[s].err)),
                            ![s].pc = IF @ = "aborted" THEN "closed" ELSE @]
    /\ UNCHANGED <<games, channels, file, last, games_lock, lock_order, applied, origin>>

\* recv_task.abort() takes effect: the aborted task is dropped at the await it
\* is suspended at, channels.read() before the first tx.send (the guard of
\* games goes with it), games.read() of persist, or the reply's sender.lock()
Cancel(s) ==
    /\ sess[s].pc = "aborted"
    /\ \/ sess[s].rpc = "publish" /\ sess[s].pending # <<>>
          /\ Head(sess[s].pending).type = "state"
       \/ sess[s].rpc \in {"persist", "reply"}
    /\ games_lock' = IF games_lock = s THEN None ELSE games_lock
    /\ sess' = [sess EXCEPT ![s].pc = "closed", ![s].rpc = "ended",
                            ![s].pending = <<>>]
    /\ UNCHANGED <<games, channels, file, last, lock_order, applied, origin>>

\* recv_task: receiver.next() yields None, an error or a frame that is not
\* text (binary, ping, close): the loop ends and the task finishes
RecvEnd(s) ==
    /\ sess[s].pc = "open"
    /\ sess[s].rpc = "wait"
    /\ sess' = [sess EXCEPT ![s].rpc = "ended"]
    /\ UNCHANGED <<games, channels, file, last, games_lock, lock_order, applied, origin>>

InitSpecConc ==
    /\ \E draw \in Draws(ConcPlayers) : games = Started(ConcPlayers, draw)
    /\ channels = [g \in {"gA"} |-> NewChannel]
    /\ file = persist(persist_path, games, NoFile)
    /\ last = [op |-> "start", status |-> 200, game_id |-> "gA",
              token |-> HostTokenOf("gA"), seed |-> <<>>]
    /\ InitConc

NextConc ==
    \E s \in Sessions :
        \/ Connect(s)
        \/ Subscribe(s)
        \/ SendSnapshot(s)
        \/ SendTask(s)
        \/ RecvFrame(s)
        \/ PaLock(s)
        \/ PaApply(s)
        \/ PaPublish(s)
        \/ PaUnlock(s)
        \/ PaPersistRead(s)
        \/ PaPersistCreate(s)
        \/ PaPersistWrite(s)
        \/ PaReply(s)
        \/ RecvEnd(s)

SpecConc == InitSpecConc /\ [][NextConc]_vars
\* ------------------------------------------------------------------ SpecLag
\* One connection of a started game of LagPlayers players that plays the
\* whole game through its socket while its own send_task is slow: the channel
\* fills beyond Capacity values the receiver has not taken.

\* the players of the game of SpecLag: with three gifts stolen three times each
\* and four gifts opened a game puts 39 values on its channel
LagPlayers == 4

LagSession == "s1"

\* the action frames a client in play sends: those the game accepts as it stands
AcceptedActions(game) ==
    {a \in PlayerActions(game) : apply_action(to_core(game), a).err = None}

\* of those, for each kind of action the one on the first gift of the game
\* it is accepted for
FirstAccepted(game) ==
    {a \in AcceptedActions(game) :
        \A b \in AcceptedActions(game) :
            b.kind = a.kind
                => GiftPosition(game.gifts, a.gift_id) <= GiftPosition(game.gifts, b.gift_id)}

\* recv_task: receiver.next() yields an action frame the game accepts
RecvPlay(s) ==
    /\ sess[s].pc = "open"
    /\ sess[s].rpc = "wait"
    /\ \E frame \in FirstAccepted(games[sess[s].game_id]) :
          sess' = [sess EXCEPT ![s].frames = @ + 1,
                               ![s].action = frame,
                               ![s].rpc = "lock"]
    /\ UNCHANGED <<games, channels, file, last, games_lock, lock_order, applied, origin>>

\* the game as started with seed 0; the first player's connection has just
\* been made: it is subscribed, its snapshot is sent and both tasks are spawned
InitLag ==
    /\ games = Started(LagPlayers, SeededDraws(0, LagPlayers))
    /\ channels = [g \in {"gA"} |-> NewChannel]
    /\ file = persist(persist_path, games, NoFile)
    /\ last = [op |-> "start", status |-> 200, game_id |-> "gA",
              token |-> HostTokenOf("gA"), seed |-> <<>>]
    /\ sess = [s \in Sessions |->
                IF s = LagSession
                THEN [NewSession EXCEPT
                        !.pc = "open", !.game_id = "gA",
                        !.player_id = games["gA"].players[1].id,
                        !.snapshot = to_view(games["gA"]),
                        !.out = <<StateMsg(to_view(games["gA"]))>>]
                ELSE NewSession]
    /\ games_lock = None
    /\ lock_order = <<>>
    /\ applied = <<>>
    /\ origin = <<>>

NextLag ==
    \/ SendTask(LagSession)
    \/ RecvPlay(LagSession)
    \/ PaLock(LagSession)
    \/ PaApply(LagSession)
    \/ PaPublish(LagSession)
    \/ PaUnlock(LagSession)
    \/ PaPersistRead(LagSession)
    \/ PaPersistCreate(LagSession)
    \/ PaPersistWrite(LagSession)
    \/ Cancel(LagSession)

SpecLag == InitLag /\ [][NextLag]_vars

\* the position of a call in lock_order (0 when it never took the guard)
LockPos(c) ==
    IF \E i \in DOMAIN lock_order : lock_order[i] = c
    THEN CHOOSE i \in DOMAIN lock_order : lock_order[i] = c
    ELSE 0

IsEventMsg(m) == m.type = "event"

\* the events carried by the event values of a sequence of channel values
EventsIn(msgs) ==
    LET evs == SelectSeq(msgs, IsEventMsg) IN [k \in DOMAIN evs |-> evs[k].event]

\* what a call that has run the engine has still to send
InFlight ==
    IF \E s \in Sessions : sess[s].rpc = "publish"
    THEN sess[CHOOSE s \in Sessions : sess[s].rpc = "publish"].pending
    ELSE <<>>

\* C9: the calls run the engine in the order they took the guard, the values
\* on the channel are grouped by call in that same order (one state value, then
\* the call's events, nothing of another call in between), and the events on
\* the channel are the game's history in order.
C9_Linearized ==
    /\ Len(applied) <= Len(lock_order)
    /\ Len(lock_order) - Len(applied) <= 1
    /\ \A i \in DOMAIN applied : applied[i] = lock_order[i]
    /\ Len(origin) = Len(channels["gA"].sent)
    /\ \A i, j \in DOMAIN origin :
          i < j => (LockPos(origin[i]) # 0 /\ LockPos(origin[i]) <= LockPos(origin[j]))
    /\ \A i \in DOMAIN origin :
          (channels["gA"].sent[i].type = "state")
              <=> (i = 1 \/ origin[i - 1] # origin[i])
    /\ games["gA"].history = EventsIn(channels["gA"].sent \o InFlight)

\* C9 witness: two connections each had an action applied and broadcast
C9_Witness ==
    /\ games_lock = None
    /\ \E i, j \in DOMAIN origin : origin[i][1] # origin[j][1]
    /\ Len(games["gA"].history) >= 4

\* the values sent between the snapshot of connection s and its subscription
Missed(s) ==
    SubSeq(channels[sess[s].game_id].sent, sess[s].snap_len + 1, sess[s].sub_pos)

\* C10: a connection's receiver starts at the state of its initial snapshot:
\* no value is sent between taking the snapshot and subscribing.
C10_SubscribeAtomic ==
    \A s \in Sessions :
        sess[s].pc \in {"send_snapshot", "open"} => Missed(s) = <<>>
\* the frames connection s was sent that came off the channel or are its snapshot
IsBroadcast(m) == m.type # "error"

\* the broadcast values forwarded to connection s after its snapshot
Received(s) ==
    LET b == SelectSeq(sess[s].out, IsBroadcast) IN IF b = <<>> THEN <<>> ELSE Tail(b)

Subscribed(s) == sess[s].pc \in {"send_snapshot", "open"}

\* C11: what a subscriber is forwarded is, in order and without a gap, the
\* values sent on the room's channel from its subscription on; two subscribers
\* of the room are forwarded the values they have in common in the same order.
C11_SubscribersSeeSameOrder ==
    /\ \A s \in Sessions :
          Subscribed(s) =>
              Received(s) = SubSeq(channels[sess[s].game_id].sent,
                                   sess[s].sub_pos + 1, sess[s].rx)
    /\ \A s, t \in Sessions :
          (Subscribed(s) /\ Subscribed(t) /\ sess[s].game_id = sess[t].game_id) =>
              \A i \in 1..Len(Received(s)), j \in 1..Len(Received(t)) :
                  (sess[s].sub_pos + i = sess[t].sub_pos + j)
                      => Received(s)[i] = Received(t)[j]

\* C11 witness: two subscribers that subscribed at different points have each
\* been forwarded at least two values, two of them common to both
C11_Witness ==
    \E s, t \in Sessions :
        /\ s # t /\ sess[s].pc = "open" /\ sess[t].pc = "open"
        /\ sess[s].sub_pos < sess[t].sub_pos
        /\ Len(Received(t)) >= 2
        /\ sess[s].rx >= sess[t].sub_pos + 2

\* the GameView of a game record, field by field
ViewOf(game) ==
    [id |-> game.id, phase |-> game.phase, players |-> game.players,
     gifts |-> game.gifts, turn_order |-> game.turn_order,
     active_player |-> game.active_player]

\* the step is a successful player action: it was answered Ok and the game changed
ActionApplied == ActionOk' /\ games' # games

\* C12: a successful action appends to the room's channel one state value
\* carrying the GameView of the game after the action, then one event value
\* for each event the engine returned, in the order returned, and nothing else.
C12_PublishStep ==
    ActionApplied =>
        LET g == last'.game_id
            before == channels[g].sent
            after == channels'[g].sent
            n == Len(last'.events)
        IN /\ Len(after) = Len(before) + 1 + n
           /\ SubSeq(after, 1, Len(before)) = before
           /\ after[Len(before) + 1] = [type |-> "state", view |-> ViewOf(games'[g])]
           /\ \A k \in 1..n :
                 after[Len(before) + 1 + k] = [type |-> "event", event |-> last'.events[k]]
           /\ games'[g].history = games[g].history \o last'.events

C13_PublishNeverBlocks ==
    \A s \in Sessions :
        (Running(s) /\ sess[s].rpc = "publish") =>
            /\ games_lock = s
            /\ ENABLED (PaPublish(s) \/ PaUnlock(s))

\* C13 witness: an action was applied, published and its guard released while
\* a receiver of the room had the whole ring unread: the receiver is more than
\* Capacity values behind
C13_Witness ==
    /\ games_lock = None
    /\ \E t \in Sessions :
          /\ sess[t].pc = "open"
          /\ Len(channels[sess[t].game_id].sent) - sess[t].rx > Capacity
          /\ sess[t].rpc \in {"persist", "create", "write", "wait"}

\* C14: a connection whose reader has terminated is torn down: its writer is
\* cancelled and its receiver released (the connection is no longer open),
\* whether or not anything is broadcast afterwards; and a connection whose
\* writer has terminated has no reader left waiting for frames.
C14_TeardownSymmetric ==
    \A s \in Sessions :
        /\ sess[s].rpc = "ended" => sess[s].pc # "open"
        /\ sess[s].pc = "closed" => sess[s].rpc # "lock"

IsErrorFrame(m) == m.type = "error"

\* the error frames connection s was sent
ErrorsSent(s) == Len(SelectSeq(sess[s].out, IsErrorFrame))

\* C15: once the reader of a connection is back at waiting for a frame, a
\* frame before that did not decode has been answered with an error frame on
\* that connection; error frames go to nobody who sent no frame.
C15_ErrorFramePerBadFrame ==
    \A s \in Sessions :
        /\ (sess[s].pc = "open" /\ sess[s].rpc = "wait" /\ sess[s].frames >= 1
                /\ sess[s].action.kind = "garbage")
              => ErrorsSent(s) >= 1
        /\ (sess[s].pc = "open" /\ sess[s].frames = 0) => ErrorsSent(s) = 0

\* the step is a start request (answered with last'.status)
StartStep == last'.op = "start" /\ last'.game_id \in DOMAIN games

\* C16: a start request on an existing game is answered 401 unless the token
\* presented is the game's host_token, else 409 unless the phase is
\* submissions, else 400 unless there is a player and every player has a gift,
\* else 200; a request not answered 200 changes nothing, one answered 200
\* takes the game out of submissions, and no step takes a game back to it.
C16_StartStepChecked ==
    /\ StartStep =>
          LET game == games[last'.game_id]
              token_ok == last'.token = game.host_token
              phase_ok == game.phase = "submissions"
              gifts_ok ==
                  /\ Len(game.players) >= 1
                  /\ \A i \in 1..Len(game.players) :
                        \E j \in 1..Len(game.gifts) :
                            game.gifts[j].submitted_by = game.players[i].id
          IN /\ last'.status = (IF ~ token_ok THEN 401
                                ELSE IF ~ phase_ok THEN 409
                                ELSE IF ~ gifts_ok THEN 400 ELSE 200)
             /\ last'.status # 200
                   => (games' = games /\ file' = file /\ channels' = channels)
             /\ last'.status = 200 => games'[last'.game_id].phase = "in_progress"
    /\ \A g \in DOMAIN games :
          games[g].phase # "submissions" => games'[g].phase # "submissions"

C16_StartPreconditions == [][C16_StartStepChecked]_vars

\* C16 witness: a game that was started is asked to start again with the right
\* token and refuses with 409
C16_Witness ==
    /\ last.op = "start" /\ last.status = 409
    /\ last.game_id \in DOMAIN games
    /\ last.token = games[last.game_id].host_token
    /\ games[last.game_id].phase = "in_progress"
    /\ games[last.game_id].turn_order # <<>>

\* C17: a start answered 200 leaves the game in_progress at turn 0 with an
\* empty history, every gift unopened, unheld and never stolen (and otherwise
\* as submitted), the players as they were, turn_order holding the id of each
\* player present at the start exactly once, and its first entry active.
C17_StartStepResult ==
    (StartStep /\ last'.status = 200) =>
        LET before == games[last'.game_id]
            after == games'[last'.game_id]
            ids == {before.players[i].id : i \in 1..Len(before.players)}
        IN /\ after.phase = "in_progress"
           /\ after.current_turn = 0
           /\ after.history = <<>>
           /\ after.players = before.players
           /\ Len(after.turn_order) = Len(before.players)
           /\ {after.turn_order[k] : k \in 1..Len(after.turn_order)} = ids
           /\ \A k, l \in 1..Len(after.turn_order) :
                 after.turn_order[k] = after.turn_order[l] => k = l
           /\ after.active_player = after.turn_order[1]
           /\ Len(after.gifts) = Len(before.gifts)
           /\ \A j \in 1..Len(after.gifts) :
                 /\ after.gifts[j].state = "unopened"
                 /\ after.gifts[j].opened_by = None
                 /\ after.gifts[j].held_by = None
                 /\ after.gifts[j].stolen_count = 0
                 /\ after.gifts[j].id = before.gifts[j].id
                 /\ after.gifts[j].submitted_by = before.gifts[j].submitted_by

C17_StartResult == [][C17_StartStepResult]_vars

\* C17 witness: a game of two players was just started and the shuffle put the
\* player who joined second first
C17_Witness ==
    /\ last.op = "start" /\ last.status = 200
    /\ Len(games[last.game_id].players) = 2
    /\ games[last.game_id].turn_order[1] = games[last.game_id].players[2].id
    /\ games[last.game_id].active_player = games[last.game_id].players[2].id

\* C18: turn_order is empty while a game is in submissions, and from its start
\* on it holds the id of each of the game's current players exactly once.
C18_TurnOrderPermutation ==
    \A g \in DOMAIN games :
        IF games[g].phase = "submissions"
        THEN games[g].turn_order = <<>>
        ELSE /\ Len(games[g].turn_order) = Len(games[g].players)
             /\ {games[g].turn_order[k] : k \in 1..Len(games[g].turn_order)}
                   = {games[g].players[i].id : i \in 1..Len(games[g].players)}
             /\ \A k, l \in 1..Len(games[g].turn_order) :
                   games[g].turn_order[k] = games[g].turn_order[l] => k = l

\* the join positions of the players of a game in the order of its turn_order
JoinPositions(game) ==
    [k \in 1..Len(game.turn_order) |->
        CHOOSE i \in 1..Len(game.players) : game.players[i].id = game.turn_order[k]]

\* C19: when a game is started with a seed right after another game was
\* started with the same seed and both have the same number of players, the
\* two turn orders arrange the join positions identically, and the players
\* active first joined at the same position.
C19_SeededStep ==
    (/\ last.op = "start" /\ last.status = 200
     /\ StartStep /\ last'.status = 200
     /\ last'.game_id # last.game_id
     /\ last'.seed # <<>> /\ last'.seed = last.seed
     /\ Len(games'[last.game_id].players) = Len(games'[last'.game_id].players))
        => LET first == games'[last.game_id]
               second == games'[last'.game_id]
           IN /\ JoinPositions(first) = JoinPositions(second)
              /\ \E i \in 1..Len(first.players) :
                    /\ first.players[i].id = first.active_player
                    /\ second.players[i].id = second.active_player

C19_SeededStartDeterministic == [][C19_SeededStep]_vars

\* C19 witness: two games of three players whose ids differ were started with
\* the same seed, one after the other, and the order is not the join order
C19_Witness ==
    /\ last.op = "start" /\ last.status = 200 /\ last.seed # <<>>
    /\ \A g \in SeedGameIds :
          /\ g \in DOMAIN games
          /\ games[g].phase = "in_progress"
          /\ Len(games[g].players) = 3
    /\ games["gA"].players[1].id # games["gB"].players[1].id
    /\ JoinPositions(games["gA"]) = JoinPositions(games["gB"])
    /\ JoinPositions(games["gA"]) # <<1, 2, 3>>

\* t is raw without the spaces at its two ends
IsTrimOf(t, raw) ==
    \E i, j \in 0..Len(raw) :
        /\ i + j <= Len(raw)
        /\ t = SubSeq(raw, i + 1, Len(raw) - j)
        /\ \A k \in 1..i : raw[k] = " "
        /\ \A k \in (Len(raw) - j + 1)..Len(raw) : raw[k] = " "
        /\ (t # <<>> => (t[1] # " " /\ t[Len(t)] # " "))
        /\ (t = <<>> => i = Len(raw))

Trimmed(raw) ==
    CHOOSE t \in {SubSeq(raw, a, b) : a \in 1..(Len(raw) + 1), b \in 0..Len(raw)} :
        IsTrimOf(t, raw)

\* the step is a join request on an existing game
JoinStep == last'.op = "join" /\ last'.game_id \in DOMAIN games

\* C20: a join on an existing game is answered 400 when the name without its
\* surrounding spaces is empty, else 409 when a player of the game has that
\* name, both changing nothing; else one player with that name and an unused
\* id is appended to players and nothing else of the game changes.  No step
\* removes or reorders players.
C20_JoinStepChecked ==
    /\ JoinStep =>
          LET before == games[last'.game_id]
              after == games'[last'.game_id]
              name == Trimmed(last'.name)
              taken == \E i \in 1..Len(before.players) : before.players[i].name = name
          IN /\ last'.status = (IF name = <<>> THEN 400 ELSE IF taken THEN 409 ELSE 200)
             /\ last'.status # 200 => (games' = games /\ file' = file)
             /\ last'.status = 200 =>
                   /\ Len(after.players) = Len(before.players) + 1
                   /\ after.players[Len(after.players)].name = name
                   /\ \A i \in 1..Len(before.players) :
                         before.players[i].id # after.players[Len(after.players)].id
                   /\ [after EXCEPT !.players = before.players] = before
    /\ \A g \in DOMAIN games :
          /\ Len(games'[g].players) >= Len(games[g].players)
          /\ SubSeq(games'[g].players, 1, Len(games[g].players)) = games[g].players

\* the names of the players of every game are non-empty, carry no space at
\* either end and are pairwise distinct
C20_NamesDistinct ==
    \A g \in DOMAIN games :
        \A i, j \in 1..Len(games[g].players) :
            /\ games[g].players[i].name # <<>>
            /\ games[g].players[i].name[1] # " "
            /\ games[g].players[i].name[Len(games[g].players[i].name)] # " "
            /\ games[g].players[i].name = games[g].players[j].name => i = j

C20_JoinTrimsAndKeepsNamesDistinct ==
    [] C20_NamesDistinct /\ [][C20_JoinStepChecked]_vars

\* C20 witness: a name that differs from a player's name only by the spaces
\* around it was refused with 409, with two players in the game
C20_Witness ==
    /\ last.op = "join" /\ last.status = 409
    /\ last.game_id \in DOMAIN games
    /\ Len(last.name) = 3
    /\ Len(games[last.game_id].players) = 2
    /\ \E i \in 1..2 : games[last.game_id].players[i].name = <<last.name[2]>>

\* ------------------------------------------------------------------ C21

GiftsBy(game, p) == {i \in DOMAIN game.gifts : game.gifts[i].submitted_by = p}

C21_OneGiftEach ==
    \A g \in DOMAIN games :
        \A i, j \in DOMAIN games[g].gifts :
            games[g].gifts[i].submitted_by = games[g].gifts[j].submitted_by => i = j

C21_IdsKept ==
    \A g \in DOMAIN games :
        /\ g \in DOMAIN games'
        /\ Len(games'[g].gifts) >= Len(games[g].gifts)
        /\ \A i \in DOMAIN games[g].gifts :
              /\ games'[g].gifts[i].id = games[g].gifts[i].id
              /\ games'[g].gifts[i].submitted_by = games[g].gifts[i].submitted_by

C21_SubmitStep ==
    last'.op = "gift" =>
        LET before == games[last'.game_id]
            after == games'[last'.game_id]
            payload == last'.payload
            mine == GiftsBy(before, payload.player_id)
        IN
        /\ before.phase # "submissions" => last'.status = 409
        /\ last'.status # 200 => games' = games
        /\ last'.status = 200 =>
              /\ before.phase = "submissions"
              /\ payload.player_id \in PlayerIdsOf(before)
              /\ \A i \in mine :
                    /\ after.gifts[i].product_url = payload.product_url
                    /\ after.gifts[i].hint = payload.hint
              /\ mine # {} => Len(after.gifts) = Len(before.gifts)
              /\ mine = {} =>
                    /\ Len(after.gifts) = Len(before.gifts) + 1
                    /\ after.gifts[Len(after.gifts)].submitted_by = payload.player_id
                    /\ after.gifts[Len(after.gifts)].id \notin GiftIdsOf(before)

\* C21: a gift is accepted only while the game is in submissions (409 once it
\* has left that phase); a player's second submission rewrites the gift that
\* player already has, under the same id, and a first one appends a gift with
\* a new id; no player ever is the submitter of two gifts, and no step changes
\* or removes the id of a gift that exists.
C21_SubmitOnlyInSubmissionsUpsert ==
    []C21_OneGiftEach /\ [][C21_SubmitStep /\ C21_IdsKept]_vars

\* C21, its case: a submission refused with 409 by a game whose players all
\* had their gift accepted before it started
C21_Witness ==
    /\ last.op = "gift" /\ last.status = 409
    /\ games[last.game_id].phase # "submissions"
    /\ Len(games[last.game_id].gifts) = MaxPlayers
    /\ \A p \in PlayerIdsOf(games[last.game_id]) :
           Cardinality(GiftsBy(games[last.game_id], p)) <= 1

\* ------------------------------------------------------------------ C22

PersistCompletes(s) == sess[s].rpc = "write" /\ sess'[s].rpc = "wait"

\* C22: when the persist a mutation asked for completes, the snapshot file
\* holds the registry that persist cloned after the mutation, and a process
\* started on that file loads every game with all fields as written.
C22_CompletedPersistIsLoadable ==
    [][\A s \in Sessions :
          PersistCompletes(s) => with_persistence(file').games = sess[s].clone]_vars

\* ------------------------------------------------------------------ C23

C23_CreateStep ==
    last'.op = "create" =>
        /\ last'.status \in {201, 401}
        /\ last'.status = 201 <=> last'.provided = "changeme"
        /\ last'.status = 401 =>
              games' = games /\ channels' = channels /\ file' = file
        /\ last'.status = 201 =>
              /\ DOMAIN games' = DOMAIN games \cup {last'.game_id}
              /\ DOMAIN channels' = DOMAIN channels \cup {last'.game_id}
              /\ \A g \in DOMAIN games : games'[g] = games[g]
              /\ LET game == games'[last'.game_id] IN
                 /\ game.phase = "submissions"
                 /\ game.players = <<>> /\ game.gifts = <<>>
                 /\ game.turn_order = <<>> /\ game.history = <<>>
                 /\ game.active_player = None

ChooseSucceeds ==
    last'.op = "action" /\ last'.status = None /\ last'.action.kind = "choose_gift"

HasTurnChanged(events) == \E i \in DOMAIN events : events[i].type = "turn_changed"

\* C24: every successful ChooseGift increments current_turn by exactly 1; when
\* the new index is below the length of turn_order the player at that index
\* becomes active and a turn_changed for that player is emitted, otherwise
\* active_player is cleared and no turn_changed is emitted.
C24_ChooseAdvancesTurn ==
    [][ChooseSucceeds =>
          LET before == games[last'.game_id]
              after == games'[last'.game_id]
              new == before.current_turn + 1
          IN
          /\ after.current_turn = new
          /\ IF new < Len(after.turn_order)
             THEN /\ after.active_player = after.turn_order[new + 1]
                  /\ TurnChanged(after.turn_order[new + 1]) \in Range(last'.events)
             ELSE /\ after.active_player = None
                  /\ ~ HasTurnChanged(last'.events)]_vars

\* ------------------------------------------------------------------ C25

StealSucceeds ==
    last'.op = "action" /\ last'.status = None /\ last'.action.kind = "steal_gift"

\* C25: a successful StealGift by the active player A of a gift held by another
\* player B makes A its holder and adds 1 to its stolen_count, leaves
\* current_turn and every other gift as they were, makes B the active player,
\* and returns exactly gift_stolen{from B, to A, the gift}, turn_changed{B}.
C25_StealEffects ==
    [][StealSucceeds =>
          LET before == games[last'.game_id]
              after == games'[last'.game_id]
              A == last'.action.player_id
              i == GiftPosition(before.gifts, last'.action.gift_id)
              B == before.gifts[i].held_by
          IN
          /\ i # 0 /\ B # None /\ B # A /\ before.active_player = A
          /\ after.gifts[i].held_by = A
          /\ after.gifts[i].stolen_count = before.gifts[i].stolen_count + 1
          /\ after.gifts[i].state = "opened"
          /\ after.gifts[i].opened_by = before.gifts[i].opened_by
          /\ Len(after.gifts) = Len(before.gifts)
          /\ \A k \in DOMAIN before.gifts : k # i => after.gifts[k] = before.gifts[k]
          /\ after.current_turn = before.current_turn
          /\ after.turn_order = before.turn_order
          /\ after.active_player = B
          /\ last'.events =
                <<[type |-> "gift_stolen", from |-> B, to |-> A,
                   gift_id |-> last'.action.gift_id],
                  [type |-> "turn_changed", player_id |-> B]>>]_vars

\* C25, its case: the steal just accepted was the second of that gift; the
\* thief holds it and the victim is active
C25_Witness ==
    /\ ActionOk /\ last.action.kind = "steal_gift"
    /\ LET game == games[last.game_id]
           i == GiftPosition(game.gifts, last.action.gift_id)
       IN /\ game.gifts[i].held_by = last.action.player_id
          /\ game.gifts[i].stolen_count = 2
          /\ game.active_player = last.events[1].from
          /\ game.active_player # last.action.player_id

\* ------------------------------------------------------------------ C26

\* the number of gift_opened events among the first i events
RECURSIVE OpensUpTo(_, _)
OpensUpTo(history, i) ==
    IF i = 0 THEN 0
    ELSE OpensUpTo(history, i - 1) + (IF history[i].type = "gift_opened" THEN 1 ELSE 0)

C26_BaselineOrder ==
    \A g \in DOMAIN games :
        LET game == games[g] IN
        \A i \in DOMAIN game.history :
            game.history[i].type = "gift_opened" =>
                LET k == OpensUpTo(game.history, i) IN
                IF k < Len(game.turn_order)
                THEN /\ i < Len(game.history)
                     /\ game.history[i + 1] =
                            [type |-> "turn_changed", player_id |-> game.turn_order[k + 1]]
                ELSE i < Len(game.history) => game.history[i + 1].type = "game_finished"

C26_ChainStep ==
    /\ StealSucceeds =>
          games'[last'.game_id].current_turn = games[last'.game_id].current_turn
    /\ ChooseSucceeds =>
          LET before == games[last'.game_id]
              after == games'[last'.game_id]
          IN before.current_turn + 1 < Len(before.turn_order) =>
                after.active_player = before.turn_order[before.current_turn + 2]

\* C26: steals leave current_turn where it is, and when the player who has to
\* act (scheduled or forced by a steal) opens a gift the next active player is
\* the one in the slot after current_turn, whatever the slot of the opener; so
\* in the history of a game the turn_changed that follows the k-th gift_opened
\* names turn_order[k] (counting slots from 0), for every k below the number
\* of players.
C26_ChainResumesBaseline == []C26_BaselineOrder /\ [][C26_ChainStep]_vars

\* C26, its case: after a steal the forced player, who is not the player of
\* the slot being played, opened a gift and the player of the next slot is
\* active
C26_Witness ==
    /\ ActionOk /\ last.action.kind = "choose_gift"
    /\ LET game == games[last.game_id]
           k == OpensUpTo(game.history, Len(game.history))
       IN /\ k < Len(game.turn_order)
          /\ game.turn_order[k] # last.action.player_id
          /\ game.active_player = game.turn_order[k + 1]
          /\ \E i \in DOMAIN game.history :
                /\ game.history[i].type = "gift_stolen"
                /\ game.history[i].from = last.action.player_id

\* ------------------------------------------------------------------ C27

\* C27: in the events returned by one successful action the first is the
\* gift_opened or gift_stolen, a turn_changed comes after it, a game_finished
\* is the last event, and no kind occurs twice.
C27_EventOrder ==
    ActionOk =>
        LET ev == last.events IN
        /\ ev # <<>>
        /\ ev[1].type \in {"gift_opened", "gift_stolen"}
        /\ ev[1].type = (IF last.action.kind = "choose_gift" THEN "gift_opened"
                         ELSE "gift_stolen")
        /\ \A i \in DOMAIN ev :
              /\ i > 1 => ev[i].type \in {"turn_changed", "game_finished"}
              /\ ev[i].type = "game_finished" => i = Len(ev)
              /\ \A k \in DOMAIN ev : ev[k].type = ev[i].type => k = i

\* C27, its case: the action that ended the game returned gift_opened and
\* then game_finished
C27_Witness ==
    /\ ActionOk
    /\ games[last.game_id].phase = "finished"
    /\ Len(last.events) = 2
    /\ last.events[1].type = "gift_opened"
    /\ last.events[2].type = "game_finished"

\* ------------------------------------------------------------------ C28

C28_HistoryStep ==
    \A g \in DOMAIN games :
        /\ g \in DOMAIN games'
        /\ IF last'.op = "action" /\ last'.status = None /\ last'.game_id = g
           THEN /\ last'.events # <<>>
                /\ games'[g].history = games[g].history \o last'.events
           ELSE games'[g].history = games[g].history

\* C28: a successful action extends the history of its game by exactly the
\* events it returns, in their order, after the history there was; a failed
\* action, and every other step, leaves the history as it is.
C28_HistoryAppendOnly == [][C28_HistoryStep]_vars

\* C28, its case: an accepted action added its events behind a history of
\* earlier actions
C28_Witness ==
    /\ ActionOk
    /\ LET h == games[last.game_id].history IN
       /\ Len(h) > Len(last.events) + 2
       /\ SubSeq(h, Len(h) - Len(last.events) + 1, Len(h)) = last.events

\* ------------------------------------------------------------------ C29

\* C29: apply_action on a game that is not in_progress fails with WrongPhase;
\* on a game in_progress an action whose actor is not the active player fails
\* with NotPlayersTurn, whatever gift it names (one of the game or none).
C29_EnginePreconditions ==
    \A g \in DOMAIN games :
        \A action \in PlayerActions(games[g]) :
            LET game == to_core(games[g])
                r == apply_action(game, action)
            IN
            /\ game.phase # "in_progress" => r.err = "WrongPhase"
            /\ (game.phase = "in_progress" /\ action.player_id # game.active_player)
                  => r.err = "NotPlayersTurn"

\* ------------------------------------------------------------------ C30

\* C30: a StealGift by the active player that names a gift of the game which
\* is still unopened fails with GiftUnopened.
C30_StealUnopenedIsGiftUnopened ==
    \A g \in DOMAIN games :
        LET game == to_core(games[g]) IN
        (game.phase = "in_progress" /\ game.active_player # None) =>
            \A i \in DOMAIN game.gifts :
                game.gifts[i].state = "unopened" =>
                    apply_action(game, StealGift(game.active_player, game.gifts[i].id)).err
                        = "GiftUnopened"

\* ------------------------------------------------------------------ C31

\* process_action of connection s applies the frame: the call leaves "apply"
\* for the broadcast
FrameApplied(s) == sess[s].rpc = "apply" /\ sess'[s].rpc = "publish"

\* C31: the action frames that a connection opened for player P gets applied
\* to the game are actions of P: a frame that names another player is never
\* applied.
C31_SessionActsOnlyForItsPlayer ==
    [][\A s \in Sessions :
          FrameApplied(s) => sess[s].action.player_id = sess[s].player_id]_vars

\* ------------------------------------------------------------------ C32

\* C32: a game that is in_progress is never stuck: some player of the game
\* can send some action frame that is accepted.
C32_NoStuckGame ==
    \A g \in DOMAIN games :
        games[g].phase = "in_progress" =>
            \E p \in PlayerIdsOf(games[g]) :
                \E action \in PlayerActions(games[g]) :
                    process_action(games, channels, g, p, action).err = None

\* ------------------------------------------------------------------ C33

\* the number of events of a type in a history
RECURSIVE CountType(_, _)
CountType(history, type) ==
    IF history = <<>> THEN 0
    ELSE CountType(Tail(history), type) + (IF Head(history).type = type THEN 1 ELSE 0)

C33_ActionsBounded ==
    \A g \in DOMAIN games :
        LET N == Len(games[g].turn_order) IN
        /\ CountType(games[g].history, "gift_opened") <= N
        /\ CountType(games[g].history, "gift_stolen") <= 3 * N

C33_FinishedAtLastChoose ==
    \A g \in DOMAIN games :
        games[g].phase \in {"in_progress", "finished"} =>
            (games[g].phase = "finished" <=>
                CountType(games[g].history, "gift_opened") = Len(games[g].turn_order))

\* C33: in a game started with N players the accepted ChooseGifts are at most
\* N and the accepted StealGifts at most 3N, so the accepted actions of a game
\* are finitely many, and the game is finished exactly from the N-th accepted
\* ChooseGift on.
C33_EveryGameTerminates == C33_ActionsBounded /\ C33_FinishedAtLastChoose

\* ------------------------------------------------------------------ C34

\* no process_action call is between its mutation and the end of its persist
NoPersistInFlight ==
    \A s \in Sessions : sess[s].rpc \in {"wait", "lock", "reply", "ended"}

C34_FileIsCurrent ==
    NoPersistInFlight => with_persistence(file).games = games

\* the registry in the file is ahead of the registry r: some game has a longer
\* history in the file
FileNewerThan(r) ==
    LET saved == with_persistence(file).games IN
    \E g \in DOMAIN saved \cap DOMAIN r :
        Len(saved[g].history) > Len(r[g].history)

C34_NoStaleOverwrite ==
    \A s \in Sessions :
        (PersistCompletes(s) /\ FileNewerThan(sess[s].clone)) => file' = file

\* C34: once every persist that was asked for has completed the file holds
\* the registry as it is, and the write of a persist that cloned an older
\* registry never replaces a file that holds a newer one.
C34_SnapshotConverges == []C34_FileIsCurrent /\ [][C34_NoStaleOverwrite]_vars

\* ------------------------------------------------------------------ C35

\* C35: in every state of a started game that is in_progress the active player
\* holds no gift; so no action of the active player is refused with
\* CannotStealOwnGift, and no frame at all is.
C35_ActiveHoldsNothing ==
    \A g \in DOMAIN games :
        LET game == games[g] IN
        (game.phase = "in_progress" /\ game.active_player # None) =>
            /\ HeldBy(game, game.active_player) = {}
            /\ \A action \in PlayerActions(game) :
                  apply_action(to_core(game), action).err # "CannotStealOwnGift"

\* C35, its case: the active player was robbed of a gift and holds none,
\* while the other gifts that are opened have holders
C35_Witness ==
    \E g \in DOMAIN games :
        LET game == games[g] IN
        /\ game.phase = "in_progress" /\ game.active_player # None
        /\ \E i \in DOMAIN game.history :
              /\ game.history[i].type = "gift_stolen"
              /\ game.history[i].from = game.active_player
        /\ \E i \in DOMAIN game.history :
              /\ game.history[i].type = "gift_opened"
              /\ game.history[i].player_id = game.active_player
        /\ HeldBy(game, game.active_player) = {}
        /\ Cardinality({i \in DOMAIN game.gifts : game.gifts[i].held_by # None}) = 2

\* ------------------------------------------------------------------ SpecRooms
\* Two rooms of one registry.  Requests are addressed to either room and may
\* name the players, the gifts and the host token of the other one.  The
\* players and the gifts of the two rooms have different ids.

\* the players a room takes
RoomPlayers == 2

RoomIds == {"gA", "gB"}

\* room gA takes RoomPlayers players, room gB one fewer
RoomSize(game_id) == IF game_id = "gA" THEN RoomPlayers ELSE RoomPlayers - 1

\* the id minted for the k-th gift of game_id
RoomGiftId(game_id, k) ==
    IF game_id = "gA" THEN GiftIdPool[k] ELSE GiftIdPool[Len(GiftIdPool) + 1 - k]

AllPlayerIds == UNION {PlayerIdsOf(games[g]) : g \in DOMAIN games}

AllGiftIds == UNION {GiftIdsOf(games[g]) : g \in DOMAIN games}

InitRooms ==
    /\ games = SeedReady(SeedReady(EmptyMap, "gA", 0), "gB", 0)
    /\ channels = [g \in RoomIds |-> NewChannel]
    /\ file = persist(persist_path, games, NoFile)
    /\ last = [op |-> "create", status |-> 201, game_id |-> "gB",
               provided |-> admin_password]
    /\ InitConc

RoomJoin ==
    \E game_id \in RoomIds :
      \E k \in 1..RoomSize(game_id) :
        LET r == join_game(games, game_id, <<NameLetters[k]>>,
                           SeedPlayerId(game_id, Len(games[game_id].players) + 1))
        IN
        /\ games' = r.games
        /\ file' = IF r.status = 200 THEN persist(persist_path, r.games, file) ELSE file
        /\ last' = [op |-> "join", status |-> r.status, game_id |-> game_id,
                     name |-> <<NameLetters[k]>>]
        /\ UNCHANGED <<channels, concVars>>

RoomGift ==
    \E game_id \in RoomIds, player_id \in AllPlayerIds :
        LET payload == [player_id |-> player_id, product_url |-> <<"u">>,
                        hint |-> <<"h">>, image_url |-> None, title |-> None]
            r == submit_gift(games, game_id, payload,
                             RoomGiftId(game_id, Len(games[game_id].gifts) + 1))
        IN
        /\ games' = r.games
        /\ file' = IF r.status = 200 THEN persist(persist_path, r.games, file) ELSE file
        /\ last' = [op |-> "gift", status |-> r.status, game_id |-> game_id,
                     payload |-> payload]
        /\ UNCHANGED <<channels, concVars>>

RoomStart ==
    \E game_id \in RoomIds, owner \in RoomIds :
        StartOf(game_id, HostTokenOf(owner), <<0>>)

\* a frame on the connection of the first player of the room
RoomAction ==
    \E game_id \in RoomIds :
        /\ games[game_id].players # <<>>
        /\ \E p \in AllPlayerIds, gift \in AllGiftIds :
             \E action \in {ChooseGift(p, gift), StealGift(p, gift)} :
                SubmitFrom(game_id, games[game_id].players[1].id, action)

NextRooms == RoomJoin \/ RoomGift \/ RoomStart \/ RoomAction

SpecRooms == InitRooms /\ [][NextRooms]_vars

\* ------------------------------------------------------------------ C36

C36_RoomStep ==
    last'.op \in {"join", "gift", "start", "action"} =>
        /\ \A B \in DOMAIN games \ {last'.game_id} :
              /\ B \in DOMAIN games' /\ games'[B] = games[B]
              /\ channels'[B] = channels[B]
        /\ LET A == last'.game_id IN
           \A i \in DOMAIN channels'[A].sent :
              (i > Len(channels[A].sent) /\ channels'[A].sent[i].type = "state")
                  => channels'[A].sent[i].view.id = A

\* C36: a join, a gift submission, a start or an action frame addressed to one
\* room leaves the record of every other room as it was and adds nothing to
\* the channel of any other room; what it publishes to its own channel is the
\* state of its own game.
C36_RoomIsolation == [][C36_RoomStep]_vars

\* C36, its case: an action was accepted in room gA, which goes on, while
\* room gB has played its game and holds the messages of it in its channel
C36_Witness ==
    /\ ActionOk /\ last.game_id = "gA"
    /\ games["gA"].phase = "in_progress"
    /\ games["gB"].phase = "finished"
    /\ Len(channels["gB"].sent) = 3
    /\ channels["gA"].sent # <<>>

====
